---- MODULE Spec2Model ----
(***************************************************************************)
(* The gateway of dama55/llm_projects: the model registry                  *)
(* (gateway/src/backends/model_registry.py), the completions router        *)
(* (gateway/src/main.py) and the streaming backend                         *)
(* (gateway/src/backends/vllm_client.py), as one asyncio event loop.       *)
(*                                                                         *)
(* A step of the model is what one coroutine runs between two suspension   *)
(* points: the code suspends only at a locked asyncio.Lock, at an HTTP     *)
(* call and at asyncio.sleep.                                              *)
(***************************************************************************)
EXTENDS Integers, Sequences, FiniteSets, TLC

\* ---------------------------------------------------------------- bounds
NumRequests == 2      \* concurrent completions requests
MaxTtl      == 1      \* configured ttl_sec ranges over 0..MaxTtl
MaxRetries  == 2      \* configured retries ranges over 0..MaxRetries
MaxTime     == 1      \* clock ticks after process start
MaxChunks   == 2      \* chunks an upstream stream carries
MaxItems    == 3      \* chunks one local generation yields

\* ---------------------------------------------------------------- values
NoTask   == 0 - 1                 \* asyncio.Lock not held
Startup  == 0                     \* the task running on_startup
Requests == 1 .. NumRequests      \* the tasks running chat_completions
Procs    == {Startup} \cup Requests

None   == "None"                  \* Python None
Absent == "Absent"                \* key not in the payload dict
Junk   == "junk"                  \* a /v1/models entry without an "id"

\* time.time() at process start: far beyond any ttl, so that a registry that
\* never fetched (_last_fetch = 0.0) is stale
Epoch == MaxTtl + 1

\* what the upstream lists at /v1/models, in its order
Listings == { <<>>, <<"A", "B">>, <<Junk, "B">> }

\* payload["model"] as sent by the client
ClientModels  == { Absent, "", "A", "C" }
\* os.getenv("DEFAULT_MODEL", ...)
DefaultModels == { "", "B", "D" }

\* bytes chunks of an upstream stream (b"" is the zero-length chunk)
Chunks == { <<>>, <<100>>, <<100, 97>> }

\* ---------------------------------------------------------------- python helpers
\* bool(x) of an optional string
Truthy(x) == x # None /\ x # Absent /\ x # ""

\* dict.get("model")
PayloadGet(m) == IF m = Absent THEN None ELSE m

\* str.lower() on the words of a message
Lower(w) ==
    CASE w = "Does"  -> "does"
      [] w = "Not"   -> "not"
      [] w = "NOT"   -> "not"
      [] w = "Exist" -> "exist"
      [] w = "Found" -> "found"
      [] w = "FOUND" -> "found"
      [] w = "Model" -> "model"
      [] OTHER       -> w

LowerAll(msg) == [i \in 1 .. Len(msg) |-> Lower(msg[i])]

\* needle in msg (substring, on words)
Contains(msg, needle) ==
    \E i \in 1 .. (Len(msg) - Len(needle) + 1) :
        SubSeq(msg, i, i + Len(needle) - 1) = needle

\* ---------------------------------------------------------------- HTTP bodies
\* A response body: whether r.json() decodes it, the shape of its "error"
\* member ("absent", "str" for a non-object, "obj"), and for an object its
\* "code" (0: no code) and "message" (<<>>: no message).
Body(dec, err, code, msg) ==
    [decodes |-> dec, error |-> err, code |-> code, message |-> msg]

BodyPlain    == Body(TRUE, "absent", 0, <<>>)    \* an object without "error"
BodyRaw      == Body(FALSE, "absent", 0, <<>>)   \* not JSON
BodyErrStr   == Body(TRUE, "str", 0, <<>>)                    \* {"error": "no route"}
BodyErrOther == Body(TRUE, "obj", 400, <<"bad", "route">>)
BodyCode404  == Body(TRUE, "obj", 404, <<>>)
BodyMsgDNE   == Body(TRUE, "obj", 0, <<"Model", "C", "Does", "Not", "Exist">>)
BodyMsgNF    == Body(TRUE, "obj", 400, <<"Model", "NOT", "Found">>)
BodyFail     == Body(TRUE, "obj", 500, <<"internal">>)

NoSignalBodies == { BodyRaw, BodyPlain, BodyErrStr, BodyErrOther }
SignalBodies   == { BodyCode404, BodyMsgDNE, BodyMsgNF }

Resp(status, body) == [status |-> status, body |-> body]
NoResp == Resp(0, BodyRaw)

\* the ids the upstream serves
Serves(lst, m) == m # Junk /\ \E i \in 1 .. Len(lst) : lst[i] = m

\* What the upstream may answer to POST /v1/chat/completions for model m: a
\* model-not-found 404 only for a model it does not serve, a completion only
\* for one it serves; any other failure for both.
PostAnswers(lst, m) ==
    IF Serves(lst, m)
    THEN {Resp(200, BodyPlain), Resp(500, BodyFail)}
         \cup {Resp(404, b) : b \in NoSignalBodies}
    ELSE {Resp(500, BodyFail)} \cup {Resp(404, b) : b \in SignalBodies}

\* outcomes of GET /v1/models other than a decodable 2xx listing
FetchFailures == { "transport", "status", "undecodable", "malformed" }

\* ---------------------------------------------------------------- state
VARIABLES
    ttl_sec,        \* ModelRegistry.ttl_sec (MODEL_REFRESH_TTL)
    retries,        \* ModelRegistry.retries (MODEL_FETCH_RETRIES)
    default_model,  \* DEFAULT_MODEL
    now,            \* time.time()
    listing,        \* what the upstream serves
    http_client,    \* main.http_client: "none" (never constructed), "open" (the
                    \* client of on_startup), "closing" (on_shutdown awaits its
                    \* aclose), "closed" (on_shutdown has cleared the global),
                    \* "fresh" (a client a request constructed on finding None)
    models,         \* ModelRegistry._models
    last_fetch,     \* ModelRegistry._last_fetch
    lock,           \* ModelRegistry._lock: the task holding it, or NoTask
    waiters,        \* ModelRegistry._lock: the tasks queued on it, in order
    tasks,          \* per task: position and locals
    hist,           \* history: counters and times the claims speak of
    bridge          \* app/main.py, generate_stream.token_stream: the worker
                    \* thread, the event loop's callbacks, the queue, the consumer

vars == << ttl_sec, retries, default_model, now, listing, http_client,
           models, last_fetch, lock, waiters, tasks, hist, bridge >>

config == << ttl_sec, retries, default_model >>

NoOut == [status |-> 0, kind |-> "none", body |-> BodyRaw]

\* pc:  "idle", "lock_wait", "fetch", "sleep", "post1", "post2",
\*      "stream_open", "streaming", "done"
\* ctx: the refresh call the task is in or was last in:
\*      "warmup" (on_startup), "resolve1" (the router's resolve_model),
\*      "force404" (maybe_retry_on_model_404's forced refresh),
\*      "resolve2" (maybe_retry_on_model_404's resolve_model)
InitTask ==
    [ pc        |-> "idle",
      ctx       |-> "none",
      requested |-> None,      \* requested_model
      stream    |-> FALSE,     \* bool(payload.get("stream", False))
      model     |-> Absent,    \* payload["model"]
      resolved  |-> "",        \* what resolve_model last returned
      attempt   |-> 0,         \* iterations of refresh's loop begun in the current
                               \* or last refresh call: the GET /v1/models it issued
      posts     |-> 0,         \* buffered POSTs issued
      opens     |-> 0,         \* streaming POSTs issued
      r         |-> NoResp,    \* the last upstream response
      first     |-> NoResp,    \* the response to the first POST
      out       |-> NoOut,     \* what the client was sent
      received  |-> <<>>,      \* chunks read from the upstream stream
      relayed   |-> <<>>,      \* chunks yielded to the client
      err       |-> "none",    \* the exception that ended the handler
      client    |-> "none",    \* the client argument of its registry call:
                               \* "none" (None), "shared", "fresh"
      bad       |-> "none",    \* a call of its that found the client "closed" or
                               \* "cleared" (None)
      saw       |-> "none",    \* while queued on the lock: another task's fetch returned
      peer      |-> FALSE,     \* ... and that was the first fetch of a forced refresh
      fixed     |-> FALSE,     \* its forced refresh stored a list
      drift     |-> FALSE ]    \* the upstream's listing changed after its first answer

\* ---- app/main.py: the items of token_stream's queue and its SSE events
\* a chunk of llm.create_chat_completion(stream=True): whether "choices" has
\* an element, its delta content and its "text"
Chunk(choices, content, text) ==
    [choices |-> choices, content |-> content, text |-> text]

ChunkDelta  == Chunk(TRUE, "x", "")     \* {'choices': [{'delta': {'content': 'x'}}]}
ChunkText   == Chunk(TRUE, "", "y")     \* {'choices': [{'text': 'y'}]}
ChunkRole   == Chunk(TRUE, "", "")      \* a delta without content
ChunkNoChoice == Chunk(FALSE, "", "")   \* {'choices': []}
LlmChunks   == { ChunkDelta, ChunkText, ChunkRole, ChunkNoChoice }

\* what is put on the queue: a chunk, an exception, or None
Item(kind, chunk) == [kind |-> kind, chunk |-> chunk]
ItemChunk(c)  == Item("chunk", c)
ItemException == Item("exception", ChunkRole)
ItemNone      == Item("None", ChunkRole)

\* f"data: {delta}\n\n", "data: Error: ...\n\n" and "data: [DONE]\n\n"
Event(data)  == << "data: ", data >>
DoneEvent    == Event("[DONE]")
ErrorEvent   == Event("Error: e")

InitBridge ==
    [ producer |-> "none",   \* the worker thread: "none", "running", "except",
                             \*   "finally", "ended"
      yielded  |-> 0,        \* chunks the generation has yielded
      posted   |-> <<>>,     \* every item handed to the loop, in the order handed
      ready    |-> <<>>,     \* the loop's scheduled callbacks: queue.put_nowait(item)
      queue    |-> <<>>,     \* the asyncio.Queue
      got      |-> <<>>,     \* every item the consumer took off the queue
      pc       |-> "none",   \* the consumer: "none", "get", "error", "done_event",
                             \*   "done"
      events   |-> <<>> ]    \* the SSE events token_stream yielded

Init ==
    /\ bridge = InitBridge
    /\ ttl_sec \in 0 .. MaxTtl
    /\ retries \in 0 .. MaxRetries
    /\ default_model \in DefaultModels
    /\ now = Epoch
    /\ listing \in Listings
    /\ http_client = "none"
    /\ models = <<>>
    /\ last_fetch = 0
    /\ lock = NoTask
    /\ waiters = <<>>
    /\ tasks = [t \in Procs |-> InitTask]
    /\ hist = [ lastOk   |-> 0 - 1,    \* time of the last fetch that returned a list
                lastOkNE |-> 0 - 1,    \* ... that returned a non-empty list
                ids      |-> <<>> ]    \* ... and the list it returned

\* the shared state as a value, threaded through the parts of one step
Cur == [ models |-> models, last_fetch |-> last_fetch, lock |-> lock,
         waiters |-> waiters, hist |-> hist, http_client |-> http_client ]

Commit(TS, S) ==
    /\ tasks' = TS
    /\ models' = S.models
    /\ last_fetch' = S.last_fetch
    /\ lock' = S.lock
    /\ waiters' = S.waiters
    /\ hist' = S.hist
    /\ http_client' = S.http_client

\* ---------------------------------------------------------------- the shared client
\* the object the global http_client names: None, the client on_startup
\* constructed, or one a request constructed
ClientOf(hc) ==
    IF hc \in {"none", "closed"} THEN "none"
    ELSE IF hc \in {"open", "closing"} THEN "shared"
    ELSE "fresh"

\* "if http_client is None: http_client = httpx.AsyncClient(timeout=None)"
ensure_client(hc) == IF ClientOf(hc) = "none" THEN "fresh" ELSE hc

\* What a call on client c finds: "ok", "closed" (httpx raises RuntimeError
\* on a closed client) or "cleared" (AttributeError on None). Only the client
\* of on_startup is ever closed, by on_shutdown.
Found(c, hc) ==
    IF c = "none" THEN "cleared"
    ELSE IF c = "shared" /\ hc # "open" THEN "closed"
    ELSE "ok"

\* ---------------------------------------------------------------- ModelRegistry
Max(a, b) == IF a >= b THEN a ELSE b

\* the refresh calls made with force=True
Forced(c) == c \in {"warmup", "force404"}

is_fresh_inverted(last) ==
    IF ttl_sec <= 0 THEN FALSE ELSE (now - last) > ttl_sec

\* ModelRegistry._is_fresh
is_fresh(last) ==
    IF ttl_sec <= 0 THEN FALSE ELSE (now - last) < ttl_sec

\* refresh's check before the lock: (not force) and self._is_fresh()
precheck(force, last) == (~force) /\ is_fresh(last)

recheck_missing(force, last) == FALSE

\* refresh's check after acquiring the lock
recheck(force, last) == (~force) /\ is_fresh(last)

\* range(max(1, self.retries if force else 1))
attempts(force) == Max(1, IF force THEN retries ELSE 1)

\* isinstance(m, dict) and "id" in m
HasId(m) == m # Junk

\* ModelRegistry._fetch_models on a decodable 2xx listing
fetch_models(entries) == SelectSeq(entries, HasId)

except_http_only(failure) == failure \in {"transport", "status"}

\* refresh's "except Exception": what _fetch_models raises and refresh catches
except_Exception(failure) == failure \in FetchFailures

resolve_no_fallback(requested, default, snapshot) ==
    LET candidates ==
            (IF Truthy(requested) THEN <<requested>> ELSE <<>>)
            \o (IF Truthy(default) THEN <<default>> ELSE <<>>)
        In(c) == \E i \in 1 .. Len(snapshot) : snapshot[i] = c
        hits == SelectSeq(candidates, In)
    IN  IF hits # <<>> THEN Head(hits)
        ELSE IF snapshot # <<>> THEN snapshot[1]
        ELSE ""

resolve_last(requested, default, snapshot) ==
    LET candidates ==
            (IF Truthy(requested) THEN <<requested>> ELSE <<>>)
            \o (IF Truthy(default) THEN <<default>> ELSE <<>>)
        In(c) == \E i \in 1 .. Len(snapshot) : snapshot[i] = c
        hits == SelectSeq(candidates, In)
    IN  IF hits # <<>> THEN Head(hits)
        ELSE IF snapshot # <<>> THEN snapshot[Len(snapshot)]
        ELSE IF Truthy(requested) THEN requested
        ELSE IF Truthy(default) THEN default
        ELSE ""

\* ModelRegistry.resolve_model after its refresh: the choice on the snapshot
resolve(requested, default, snapshot) ==
    LET candidates ==
            (IF Truthy(requested) THEN <<requested>> ELSE <<>>)
            \o (IF Truthy(default) THEN <<default>> ELSE <<>>)
        In(c) == \E i \in 1 .. Len(snapshot) : snapshot[i] = c
        hits == SelectSeq(candidates, In)
    IN  IF hits # <<>> THEN Head(hits)
        ELSE IF snapshot # <<>> THEN snapshot[1]
        ELSE IF Truthy(requested) THEN requested
        ELSE IF Truthy(default) THEN default
        ELSE ""

\* r.json() in the router, None when it raises
r_json(body) ==
    IF body.decodes THEN [none |-> FALSE, obj |-> body]
                    ELSE [none |-> TRUE, obj |-> BodyPlain]

\* resp_json or {}
or_empty(json) == IF json.none THEN BodyPlain ELSE json.obj

\* ModelRegistry._is_model_not_found_404: "true", "false", or the
\* AttributeError of .get on an "error" member that is no object
is_model_not_found_404(resp_json) ==
    IF resp_json.error = "absent" THEN "false"
    ELSE IF resp_json.error = "str" THEN "AttributeError"
    ELSE LET code == resp_json.code
             msg  == LowerAll(resp_json.message)
         IN  IF \/ code = 404
                \/ Contains(msg, <<"does", "not", "exist">>)
                \/ Contains(msg, <<"not", "found">>)
             THEN "true" ELSE "false"

store_merge(S, ids) ==
    IF ids # <<>>
    THEN [S EXCEPT !.models = @ \o ids, !.last_fetch = now]
    ELSE S

\* refresh, lines 141-143: "if ids:" both fields are assigned, with no
\* suspension point between the two assignments
store(S, ids) ==
    IF ids # <<>>
    THEN [S EXCEPT !.models = ids, !.last_fetch = now]
    ELSE S

on_exception_clear(S) == [S EXCEPT !.models = <<>>, !.last_fetch = 0]

\* refresh, lines 145-146: the handler of a failed attempt keeps the
\* exception and assigns no field of the registry
on_exception(S) == S

lock_free_always(S) == TRUE

\* asyncio.Lock.acquire returns at once: the lock is not held and no task is
\* queued on it
lock_free(S) == S.lock = NoTask /\ S.waiters = <<>>

\* ---------------------------------------------------------------- history
\* a GET /v1/models returns ids
CountOk(h, ids) ==
    [h EXCEPT !.lastOk = now,
              !.lastOkNE = IF ids # <<>> THEN now ELSE @,
              !.ids = IF ids # <<>> THEN ids ELSE @]

\* the tasks queued on the lock see the fetch of task t return
Seen(TS, t, ids) ==
    [u \in Procs |->
        IF TS[u].pc = "lock_wait"
        THEN [TS[u] EXCEPT !.saw = IF ids # <<>> THEN "nonempty"
                                   ELSE IF @ = "none" THEN "empty" ELSE @,
                           !.peer = @ \/ (Forced(TS[t].ctx) /\ TS[t].attempt = 1)]
        ELSE TS[u]]

\* ---------------------------------------------------------------- one step, in parts
Release_keep(S) == S

\* "async with self._lock" is left, by return or by exception
Release(S) == [S EXCEPT !.lock = NoTask]

\* The handler of task t returns or raises: the locals of its refresh calls
\* are gone; what it posted, received and sent stays on record.
Return(TS, t) ==
    [TS EXCEPT ![t].pc = "done", ![t].attempt = 0,
               ![t].saw = "none", ![t].peer = FALSE]

\* an exception leaves chat_completions: the framework answers 500
Crash(t, TS, S, e) ==
    Commit([Return(TS, t) EXCEPT
                ![t].err = e,
                ![t].out = [status |-> 500, kind |-> "error", body |-> BodyRaw]],
           S)

\* chat_completions, response emission: JSONResponse(content=r.json(), ...)
\* or the {"raw": r.text} wrapper, with r.status_code
Emit(t, TS, S) ==
    LET r == TS[t].r
    IN  Commit([Return(TS, t) EXCEPT
                          ![t].out = [status |-> r.status,
                                      kind |-> IF r.body.decodes THEN "json" ELSE "raw",
                                      body |-> r.body]],
               S)

should_retry_always(new_model, current) == Truthy(new_model)

should_retry_same(new_model, current) ==
    Truthy(new_model) /\ new_model = PayloadGet(current)

\* chat_completions: new_model and new_model != payload.get("model")
should_retry(new_model, current) ==
    Truthy(new_model) /\ new_model # PayloadGet(current)

apply_resolved_ignore(resolved, model) ==
    IF model = Absent THEN default_model ELSE model

\* chat_completions, lines 98-102: payload["model"] = resolved, or
\* payload.setdefault("model", default_model) when resolved is empty
apply_resolved(resolved, model) ==
    IF resolved # "" THEN resolved
    ELSE IF model = Absent THEN default_model
    ELSE model

\* "await http_client.post(...)" on the global: the POST is issued, or the
\* call raises at once on a closed or cleared client and leaves the handler
Post(t, pc, TS, S) ==
    LET found == Found(ClientOf(S.http_client), S.http_client)
    IN  IF found = "ok"
        THEN Commit([TS EXCEPT ![t].pc = pc, ![t].posts = @ + 1], S)
        ELSE Crash(t, [TS EXCEPT ![t].bad = found], S, found)

\* What the caller of a returned refresh runs up to its next suspension:
\* on_startup's end, the router's resolve step and dispatch, or the end of
\* maybe_retry_on_model_404 and the router's retry.
Finish(t, TS, S) ==
    LET T == TS[t]
        resolved == resolve(T.requested, default_model, S.models)
    IN  CASE T.ctx = "warmup" ->
                Commit(Return(TS, t), S)
          [] T.ctx = "resolve1" ->
                LET m1  == apply_resolved(resolved, T.model)
                    TS1 == [TS EXCEPT ![t].model = m1, ![t].resolved = resolved]
                IN  IF T.stream
                    THEN Commit([TS1 EXCEPT ![t].pc = "stream_open",
                                            ![t].opens = @ + 1,
                                            ![t].out = [status |-> 200, kind |-> "stream",
                                                        body |-> BodyRaw]],
                                S)
                    ELSE Post(t, "post1", TS1,
                              [S EXCEPT !.http_client = ensure_client(@)])
          [] T.ctx = "resolve2" ->
                LET new_model == IF resolved # "" THEN resolved ELSE None
                IN  IF should_retry(new_model, T.model)
                    THEN Post(t, "post2",
                              [TS EXCEPT ![t].model = new_model,
                                         ![t].resolved = resolved],
                              S)
                    ELSE Emit(t, [TS EXCEPT ![t].resolved = resolved], S)

\* refresh's loop body begins: await self._fetch_models(client)
StartAttempt(t, TS, S) ==
    LET found == Found(TS[t].client, S.http_client)
        TS1   == [TS EXCEPT ![t].attempt = @ + 1]
    IN  IF found = "ok"
        THEN Commit([TS1 EXCEPT ![t].pc = "fetch"], S)
        ELSE \* client.get raises at once; "except Exception" catches it
             LET TS2 == [TS1 EXCEPT ![t].bad = found]
             IN  IF Forced(TS[t].ctx)
                 THEN Commit([TS2 EXCEPT ![t].pc = "sleep"], S)
                 ELSE Finish(t, TS2, Release(S))

\* ModelRegistry.refresh from its call to its first suspension (or its return)
Enter(t, c, TS, S) ==
    LET TS0 == [TS EXCEPT ![t].ctx = c, ![t].attempt = 0,
                          ![t].saw = "none", ![t].peer = FALSE]
    IN  IF precheck(Forced(c), S.last_fetch)
        THEN Finish(t, TS0, S)
        ELSE IF lock_free(S)
        THEN IF recheck(Forced(c), S.last_fetch)
             THEN Finish(t, TS0, S)
             ELSE StartAttempt(t, TS0, [S EXCEPT !.lock = t])
        ELSE Commit([TS0 EXCEPT ![t].pc = "lock_wait"],
                    [S EXCEPT !.waiters = Append(@, t)])

\* refresh has returned (the lock is released): back in its caller
After(t, TS, S) ==
    IF TS[t].ctx = "force404"
    THEN Enter(t, "resolve2", TS, S)
    ELSE Finish(t, TS, S)

\* refresh's loop after a failed attempt: the next attempt or the return
NextAttempt(t, TS, S) ==
    IF TS[t].attempt < attempts(Forced(TS[t].ctx))
    THEN StartAttempt(t, TS, S)
    ELSE After(t, TS, Release(S))

\* ---------------------------------------------------------------- the router's handlers
\* maybe_retry_on_model_404 past its two early returns: the forced refresh,
\* then resolve_model
forced_refresh_then_resolve(t, TS, S) ==
    Enter(t, "force404", [TS EXCEPT ![t].client = ClientOf(S.http_client)], S)

\* chat_completions on the response to its first POST
on_first_response(t, resp) ==
    LET TS1 == [tasks EXCEPT ![t].r = resp, ![t].first = resp]
        signal == is_model_not_found_404(or_empty(r_json(resp.body)))
    IN  IF resp.status = 404
        THEN CASE signal = "AttributeError" -> Crash(t, TS1, Cur, "AttributeError")
               [] signal = "false" -> Emit(t, TS1, Cur)
               [] signal = "true"  -> forced_refresh_then_resolve(t, TS1, Cur)
        ELSE Emit(t, TS1, Cur)

on_retry_response_again(t, resp) ==
    LET TS1 == [tasks EXCEPT ![t].r = resp]
        signal == is_model_not_found_404(or_empty(r_json(resp.body)))
    IN  IF resp.status = 404
        THEN CASE signal = "AttributeError" -> Crash(t, TS1, Cur, "AttributeError")
               [] signal = "false" -> Emit(t, TS1, Cur)
               [] signal = "true"  -> forced_refresh_then_resolve(t, TS1, Cur)
        ELSE Emit(t, TS1, Cur)

\* chat_completions on the response to its second POST: response emission
on_retry_response(t, resp) ==
    Emit(t, [tasks EXCEPT ![t].r = resp], Cur)

stream_yield_all(chunk) == <<chunk>>

\* VLLMBackend.stream_openai_sse on one chunk of r.aiter_bytes(): what it yields
stream_openai_sse(chunk) == IF chunk # <<>> THEN <<chunk>> ELSE <<>>

on_stream_response_retry(t, resp) ==
    LET TS1 == [tasks EXCEPT ![t].r = resp]
    IN  IF resp.status = 200
        THEN Commit([TS1 EXCEPT ![t].pc = "streaming"], Cur)
        ELSE IF resp.status = 404
                /\ is_model_not_found_404(or_empty(r_json(resp.body))) = "true"
        THEN forced_refresh_then_resolve(t, TS1, Cur)
        ELSE Commit([Return(TS1, t) EXCEPT ![t].err = "HTTPStatusError"], Cur)

\* VLLMBackend.stream_openai_sse on the response to its POST:
\* r.raise_for_status(), then the loop over r.aiter_bytes()
on_stream_response(t, resp) ==
    IF resp.status = 200
    THEN Commit([tasks EXCEPT ![t].r = resp, ![t].pc = "streaming"], Cur)
    ELSE Commit([Return(tasks, t) EXCEPT ![t].r = resp,
                                         ![t].err = "HTTPStatusError"], Cur)

\* chat_completions.gen: yields each chunk of the backend
gen(yielded) == yielded

\* ---------------------------------------------------------------- actions
Env == UNCHANGED << ttl_sec, retries, default_model, now, listing, bridge >>

\* main.on_startup up to warmup's first suspension
on_startup ==
    /\ tasks[Startup].pc = "idle"
    /\ Enter(Startup, "warmup",
             [tasks EXCEPT ![Startup].client = "shared"],
             [Cur EXCEPT !.http_client = "open"])
    /\ Env

\* main.chat_completions from the request to its first suspension; the
\* server takes requests once startup has completed
chat_completions(t, m, s) ==
    /\ tasks[t].pc = "idle"
    /\ tasks[Startup].pc = "done"
    /\ LET hc == ensure_client(http_client)
       IN  Enter(t, "resolve1",
                 [tasks EXCEPT ![t].requested = PayloadGet(m),
                               ![t].model = m,
                               ![t].stream = s,
                               ![t].client = ClientOf(hc)],
                 [Cur EXCEPT !.http_client = hc])
    /\ Env

\* a task queued on the lock is woken and holds it
Acquire(t) ==
    /\ tasks[t].pc = "lock_wait"
    /\ lock = NoTask
    /\ waiters # <<>>
    /\ Head(waiters) = t
    /\ LET S1 == [Cur EXCEPT !.waiters = Tail(@), !.lock = t]
       IN  IF recheck(Forced(tasks[t].ctx), last_fetch)
           THEN After(t, tasks, Release(S1))
           ELSE StartAttempt(t, tasks, S1)
    /\ Env

\* GET /v1/models returns a decodable 2xx listing
FetchReturns(t) ==
    /\ tasks[t].pc = "fetch"
    /\ LET ids == fetch_models(listing)
           S1  == store(Cur, ids)
           S2  == [S1 EXCEPT !.hist = CountOk(@, ids)]
           TS1 == [Seen(tasks, t, ids) EXCEPT
                     ![t].fixed = @ \/ (tasks[t].ctx = "force404" /\ ids # <<>>)]
       IN  After(t, TS1, Release(S2))
    /\ Env

\* GET /v1/models fails: _fetch_models raises
FetchRaises(t, failure) ==
    /\ tasks[t].pc = "fetch"
    /\ LET c == tasks[t].ctx
       IN  IF except_Exception(failure)
           THEN IF Forced(c)
                THEN Commit([tasks EXCEPT ![t].pc = "sleep"], on_exception(Cur))
                ELSE NextAttempt(t, tasks, on_exception(Cur))
           ELSE \* the exception leaves refresh through "async with"
                IF c = "warmup"
                THEN Commit(Return(tasks, t), Release(Cur))
                ELSE Crash(t, tasks, Release(Cur), "registry")
    /\ Env

\* asyncio.sleep(self.retry_delay_sec) returns
SleepDone(t) ==
    /\ tasks[t].pc = "sleep"
    /\ NextAttempt(t, tasks, Cur)
    /\ Env

\* the upstream answers the first buffered POST
FirstResponse(t, resp) ==
    /\ tasks[t].pc = "post1"
    /\ resp \in PostAnswers(listing, tasks[t].model)
    /\ on_first_response(t, resp)
    /\ Env

\* the upstream answers the second buffered POST
RetryResponse(t, resp) ==
    /\ tasks[t].pc = "post2"
    /\ resp \in PostAnswers(listing, tasks[t].model)
    /\ on_retry_response(t, resp)
    /\ Env

\* http_client.post raises (transport failure)
PostRaises(t) ==
    /\ tasks[t].pc \in {"post1", "post2"}
    /\ Crash(t, tasks, Cur, "transport")
    /\ Env

\* the upstream answers the streaming POST
StreamOpens(t, resp) ==
    /\ tasks[t].pc = "stream_open"
    /\ resp \in PostAnswers(listing, tasks[t].model)
    /\ on_stream_response(t, resp)
    /\ Env

\* the streaming connection fails, at the POST or between chunks
StreamRaises(t) ==
    /\ tasks[t].pc \in {"stream_open", "streaming"}
    /\ Commit([Return(tasks, t) EXCEPT ![t].err = "transport"], Cur)
    /\ Env

\* r.aiter_bytes() delivers a chunk
StreamChunk(t, chunk) ==
    /\ tasks[t].pc = "streaming"
    /\ Len(tasks[t].received) < MaxChunks
    /\ Commit([tasks EXCEPT ![t].received = Append(@, chunk),
                            ![t].relayed = @ \o gen(stream_openai_sse(chunk))],
              Cur)
    /\ Env

\* the upstream closes the stream
StreamEnd(t) ==
    /\ tasks[t].pc = "streaming"
    /\ Commit(Return(tasks, t), Cur)
    /\ Env

\* main.on_shutdown up to its suspension: "await http_client.aclose()"; the
\* client is closed from here on, the global still names it
on_shutdown ==
    /\ tasks[Startup].pc = "done"
    /\ http_client = "open"
    /\ http_client' = "closing"
    /\ UNCHANGED << ttl_sec, retries, default_model, now, listing, bridge,
                    models, last_fetch, lock, waiters, tasks, hist >>

\* main.on_shutdown after aclose: "http_client = None"
on_shutdown_clear ==
    /\ http_client = "closing"
    /\ http_client' = "closed"
    /\ UNCHANGED << ttl_sec, retries, default_model, now, listing, bridge,
                    models, last_fetch, lock, waiters, tasks, hist >>

\* the upstream loads or unloads models
UpstreamChange(l) ==
    /\ l # listing
    /\ listing' = l
    /\ tasks' = [u \in Procs |->
                    IF tasks[u].posts >= 1 /\ tasks[u].pc \notin {"post1", "done"}
                    THEN [tasks[u] EXCEPT !.drift = TRUE]
                    ELSE tasks[u]]
    /\ UNCHANGED << ttl_sec, retries, default_model, now, http_client, bridge,
                    models, last_fetch, lock, waiters, hist >>

\* time passes
Tick ==
    /\ now < Epoch + MaxTime
    /\ now' = now + 1
    /\ UNCHANGED << ttl_sec, retries, default_model, listing, http_client, bridge,
                    models, last_fetch, lock, waiters, tasks, hist >>

\* ---------------------------------------------------------------- app/main.py: token_stream
Gateway == << ttl_sec, retries, default_model, now, listing, http_client,
              models, last_fetch, lock, waiters, tasks, hist >>

handoff_front(ready, item) == << item >> \o ready

\* loop.call_soon_threadsafe(queue.put_nowait, item): the callback is
\* appended to the loop's callbacks, which run in the order scheduled
handoff(ready, item) == Append(ready, item)

\* the worker thread hands an item to the loop
Hand(item, producer) ==
    [bridge EXCEPT !.ready = handoff(@, item),
                   !.posted = Append(@, item),
                   !.producer = producer]

\* the consumer's extraction of the text fragment: the delta's content, else
\* the choice's "text"
delta_of(chunk) == IF chunk.content # "" THEN chunk.content ELSE chunk.text

\* generate_stream is called: token_stream starts the producer with
\* asyncio.to_thread and awaits queue.get()
token_stream ==
    /\ bridge.pc = "none"
    /\ bridge' = [bridge EXCEPT !.producer = "running", !.pc = "get"]
    /\ UNCHANGED Gateway

\* producer: the generation yields a chunk, which is handed to the loop
ProducerYields(chunk) ==
    /\ bridge.producer = "running"
    /\ bridge.yielded < MaxItems
    /\ bridge' = [Hand(ItemChunk(chunk), "running") EXCEPT !.yielded = @ + 1]
    /\ UNCHANGED Gateway

\* producer: the generation raises an Exception: "except Exception as e"
\* hands e to the loop
ProducerRaises ==
    /\ bridge.producer = "running"
    /\ bridge' = Hand(ItemException, "finally")
    /\ UNCHANGED Gateway

\* producer: the generation ends, or raises what is no Exception: straight
\* to "finally"
ProducerEnds ==
    /\ bridge.producer = "running"
    /\ bridge' = [bridge EXCEPT !.producer = "finally"]
    /\ UNCHANGED Gateway

\* producer: "finally" hands None to the loop
ProducerFinally ==
    /\ bridge.producer = "finally"
    /\ bridge' = Hand(ItemNone, "ended")
    /\ UNCHANGED Gateway

\* the event loop runs its next callback: queue.put_nowait(item)
LoopRuns ==
    /\ bridge.ready # <<>>
    /\ bridge' = [bridge EXCEPT !.ready = Tail(@),
                                !.queue = Append(@, Head(bridge.ready))]
    /\ UNCHANGED Gateway

\* the consumer: "item = await queue.get()" returns, and the loop body runs
\* up to the next await or yield
ConsumerGets ==
    /\ bridge.pc = "get"
    /\ bridge.queue # <<>>
    /\ LET item == Head(bridge.queue)
           B    == [bridge EXCEPT !.queue = Tail(@), !.got = Append(@, item)]
       IN  bridge' =
             CASE item.kind = "None" -> [B EXCEPT !.pc = "done_event"]
               [] item.kind = "exception" -> [B EXCEPT !.pc = "error"]
               [] item.kind = "chunk" ->
                     IF ~item.chunk.choices
                     THEN \* [][0] raises IndexError
                          [B EXCEPT !.pc = "error"]
                     ELSE IF delta_of(item.chunk) # ""
                     THEN [B EXCEPT !.events = Append(@, Event(delta_of(item.chunk)))]
                     ELSE B
    /\ UNCHANGED Gateway

\* the consumer's "except Exception": yields the error event
ConsumerError ==
    /\ bridge.pc = "error"
    /\ bridge' = [bridge EXCEPT !.events = Append(@, ErrorEvent),
                                !.pc = "done_event"]
    /\ UNCHANGED Gateway

\* the consumer yields "data: [DONE]" and token_stream ends
ConsumerDone ==
    /\ bridge.pc = "done_event"
    /\ bridge' = [bridge EXCEPT !.events = Append(@, DoneEvent), !.pc = "done"]
    /\ UNCHANGED Gateway

\* ---------------------------------------------------------------- specifications
\* The registry and the router under concurrent buffered requests; the
\* upstream's answers are one of each kind the router tells apart.
CoreAnswers ==
    { Resp(200, BodyPlain), Resp(500, BodyFail),
      Resp(404, BodyCode404), Resp(404, BodyPlain) }

CoreModels == { "A" }

InitCore ==
    /\ Init
    /\ default_model = "B"

Next ==
    \/ on_startup
    \/ \E t \in Requests, m \in CoreModels : chat_completions(t, m, FALSE)
    \/ \E t \in Procs : Acquire(t)
    \/ \E t \in Procs : FetchReturns(t)
    \/ \E t \in Procs, f \in FetchFailures : FetchRaises(t, f)
    \/ \E t \in Procs : SleepDone(t)
    \/ \E t \in Requests, resp \in CoreAnswers : FirstResponse(t, resp)
    \/ \E t \in Requests, resp \in CoreAnswers : RetryResponse(t, resp)
    \/ \E t \in Requests : PostRaises(t)
    \/ \E l \in Listings : UpstreamChange(l)
    \/ Tick

Spec == InitCore /\ [][Next]_vars

\* Concurrent buffered requests under the event loop's scheduling: a task
\* woken on the lock runs, asyncio.sleep ends, and an awaited GET /v1/models
\* ends, by returning or by raising. The upstream's listing is fixed and the
\* clock stands still.
NextLive ==
    \/ on_startup
    \/ \E t \in Requests, m \in CoreModels : chat_completions(t, m, FALSE)
    \/ \E t \in Procs : Acquire(t)
    \/ \E t \in Procs : FetchReturns(t)
    \/ \E t \in Procs, f \in FetchFailures : FetchRaises(t, f)
    \/ \E t \in Procs : SleepDone(t)
    \/ \E t \in Requests, resp \in CoreAnswers : FirstResponse(t, resp)
    \/ \E t \in Requests, resp \in CoreAnswers : RetryResponse(t, resp)
    \/ \E t \in Requests : PostRaises(t)

Fairness ==
    \A t \in Procs :
        /\ WF_vars(Acquire(t))
        /\ WF_vars(SleepDone(t))
        /\ WF_vars(FetchReturns(t) \/ \E f \in FetchFailures : FetchRaises(t, f))

SpecLive == InitCore /\ [][NextLive]_vars /\ Fairness

\* The local-inference bridge of app/main.py, one generate_stream request:
\* the worker thread runs, the generation ends (max_tokens bounds it), the
\* loop runs its callbacks and the awaiting consumer.
InitBridgeOnly ==
    /\ Init
    /\ ttl_sec = 0
    /\ retries = 0
    /\ default_model = ""
    /\ listing = <<>>

NextBridge ==
    \/ token_stream
    \/ \E c \in LlmChunks : ProducerYields(c)
    \/ ProducerRaises
    \/ ProducerEnds
    \/ ProducerFinally
    \/ LoopRuns
    \/ ConsumerGets
    \/ ConsumerError
    \/ ConsumerDone

FairnessBridge ==
    /\ WF_vars(ProducerRaises \/ ProducerEnds \/ \E c \in LlmChunks : ProducerYields(c))
    /\ WF_vars(ProducerFinally)
    /\ WF_vars(LoopRuns)
    /\ WF_vars(ConsumerGets)
    /\ WF_vars(ConsumerError)
    /\ WF_vars(ConsumerDone)

SpecBridge == InitBridgeOnly /\ [][NextBridge]_vars /\ FairnessBridge

\* One request at a time, with every client input, every configured default,
\* every upstream body and the streaming path.
First == CHOOSE t \in Requests : \A u \in Requests : t <= u

NextRouter ==
    \/ on_startup
    \/ \E m \in ClientModels, s \in BOOLEAN : chat_completions(First, m, s)
    \/ \E t \in Procs : FetchReturns(t)
    \/ \E t \in Procs, f \in FetchFailures : FetchRaises(t, f)
    \/ \E t \in Procs : SleepDone(t)
    \/ \E resp \in PostAnswers(listing, tasks[First].model) : FirstResponse(First, resp)
    \/ \E resp \in PostAnswers(listing, tasks[First].model) : RetryResponse(First, resp)
    \/ PostRaises(First)
    \/ \E resp \in PostAnswers(listing, tasks[First].model) : StreamOpens(First, resp)
    \/ StreamRaises(First)
    \/ \E c \in Chunks : StreamChunk(First, c)
    \/ StreamEnd(First)
    \/ \E l \in Listings : UpstreamChange(l)
    \/ Tick

SpecRouter == Init /\ [][NextRouter]_vars

\* Concurrent buffered requests with the shutdown handler: the upstream's
\* listing is fixed and the clock stands still.
InitShutdown == InitCore

NextShutdown ==
    \/ on_startup
    \/ on_shutdown
    \/ on_shutdown_clear
    \/ \E t \in Requests, m \in CoreModels : chat_completions(t, m, FALSE)
    \/ \E t \in Procs : Acquire(t)
    \/ \E t \in Procs : FetchReturns(t)
    \/ \E t \in Procs, f \in FetchFailures : FetchRaises(t, f)
    \/ \E t \in Procs : SleepDone(t)
    \/ \E t \in Requests, resp \in CoreAnswers : FirstResponse(t, resp)
    \/ \E t \in Requests, resp \in CoreAnswers : RetryResponse(t, resp)
    \/ \E t \in Requests : PostRaises(t)

SpecShutdown == InitShutdown /\ [][NextShutdown]_vars

\* ---------------------------------------------------------------- what the claims speak of
Range(seq) == { seq[i] : i \in 1 .. Len(seq) }

NonForced(c) == c \in {"resolve1", "resolve2"}

\* refresh(force=False) is invoked by task t within this step
Invoked(t) == tasks'[t].ctx # tasks[t].ctx /\ NonForced(tasks'[t].ctx)

\* now lies in [t0, t0 + ttl) for a fetch at t0, with ttl > 0
InWindow(t0) == ttl_sec > 0 /\ t0 >= 0 /\ t0 <= now /\ now < t0 + ttl_sec

\* a body that carries the upstream's model-not-found signal
ClaimSignal(body) ==
    /\ body.decodes
    /\ body.error = "obj"
    /\ \/ body.code = 404
       \/ \E i \in 1 .. Len(body.message) - 1 :
              /\ body.message[i] \in {"not", "Not", "NOT"}
              /\ body.message[i + 1] \in {"found", "Found", "FOUND"}
       \/ \E i \in 1 .. Len(body.message) - 2 :
              /\ body.message[i] \in {"does", "Does"}
              /\ body.message[i + 1] \in {"not", "Not", "NOT"}
              /\ body.message[i + 2] \in {"exist", "Exist"}

\* the client was sent the upstream's model-not-found 404
NotFound404(out) == out.status = 404 /\ out.kind = "json" /\ ClaimSignal(out.body)

\* an upstream response, as it would be sent on
AsSent(resp) ==
    [status |-> resp.status,
     kind |-> IF resp.body.decodes THEN "json" ELSE "raw",
     body |-> resp.body]

\* ---------------------------------------------------------------- C1
\* C1: of N >= 2 overlapping refresh(force=True) calls without a failed
\* fetch, only one issues GET /v1/models: a forced caller that was queued on
\* the lock while another forced caller's first fetch returned (here: a
\* non-empty list) does not fetch itself.
CEx_C1 ==
    \A t \in Procs :
        ~( /\ Forced(tasks[t].ctx)
           /\ tasks[t].pc = "fetch"
           /\ tasks[t].attempt = 1
           /\ tasks[t].peer
           /\ tasks[t].saw = "nonempty" )

\* ---------------------------------------------------------------- C2
\* C2 (as stated): a refresh(force=False) invoked within ttl of the last
\* fetch that returned a list, whatever the list, issues no GET /v1/models.
CEx_C2 ==
    [][ \A t \in Requests :
            (Invoked(t) /\ InWindow(hist'.lastOk)) => tasks'[t].pc # "fetch" ]_vars

\* C2 (amended): with ttl > 0, a refresh(force=False) invoked within ttl of
\* the last fetch that returned a non-empty list returns at once without a
\* GET /v1/models; invoked outside that window it goes for the lock and the
\* fetch; and no refresh(force=False) issues more than one GET.
Thm_C2 ==
    [][ /\ \A t \in Requests :
              Invoked(t) =>
                  IF InWindow(hist'.lastOkNE)
                  THEN /\ tasks'[t].pc \notin {"lock_wait", "fetch"}
                       /\ tasks'[t].attempt = 0
                  ELSE tasks'[t].pc \in {"lock_wait", "fetch"}
        /\ \A t \in Requests :
              NonForced(tasks'[t].ctx) => tasks'[t].attempt <= 1 ]_vars

Witness_C2 ==
    \E t \in Requests :
        /\ tasks[t].pc = "post1"
        /\ tasks[t].ctx = "resolve1"
        /\ tasks[t].attempt = 0
        /\ InWindow(hist.lastOkNE)
        /\ \A u \in Requests \ {t} : tasks[u].pc = "idle"

\* ---------------------------------------------------------------- C3
\* the resolution the claim states, on snapshot S
ClaimResolve(r, d, S) ==
    IF Truthy(r) /\ r \in Range(S) THEN r
    ELSE IF Truthy(d) /\ d \in Range(S) THEN d
    ELSE IF Len(S) > 0 THEN S[1]
    ELSE IF Truthy(r) THEN r
    ELSE IF Truthy(d) THEN d
    ELSE ""

\* resolve_model returns to the router within this step
Resolved(t) ==
    /\ tasks'[t].pc # tasks[t].pc
    /\ \/ tasks'[t].pc \in {"post1", "stream_open"}
       \/ /\ tasks'[t].ctx = "resolve2"
          /\ tasks'[t].pc \in {"post2", "done"}
          /\ tasks'[t].err = "none"
          /\ tasks[t].pc # "post2"

\* C3: resolve_model returns the requested model if it is in the snapshot,
\* else the default if it is in the snapshot, else the snapshot's first
\* element, else (empty snapshot) requested, default or ""; on a non-empty
\* snapshot the result is a member of it.
Thm_C3 ==
    [][ \A t \in Requests :
            Resolved(t) =>
                /\ tasks'[t].resolved =
                       ClaimResolve(tasks'[t].requested, default_model, models')
                /\ models' # <<>> => tasks'[t].resolved \in Range(models') ]_vars

Witness_C3 ==
    \E t \in Requests :
        /\ tasks[t].pc = "post1"
        /\ tasks[t].ctx = "resolve1"
        /\ tasks[t].requested = "C"
        /\ default_model = "D"
        /\ models = <<"A", "B">>
        /\ tasks[t].resolved = "A"

\* ---------------------------------------------------------------- C4
\* C4: a buffered request issues at most 2 POSTs: after the second one it
\* only waits for the answer or has ended, and a model-not-found 404
\* followed by a successful retry is exactly 2 POSTs.
Thm_C4 ==
    \A t \in Requests :
        /\ tasks[t].posts <= 2
        /\ tasks[t].posts = 2 => tasks[t].pc \in {"post2", "done"}
        /\ ( /\ tasks[t].pc = "done"
             /\ NotFound404(AsSent(tasks[t].first))
             /\ tasks[t].r.status = 200 ) => tasks[t].posts = 2

Witness_C4 ==
    \E t \in Requests :
        /\ tasks[t].pc = "done"
        /\ tasks[t].posts = 2
        /\ tasks[t].first.status = 404
        /\ tasks[t].r.status = 404
        /\ tasks[t].out.status = 404

\* ---------------------------------------------------------------- C5
\* C5: a first 404 without the model-not-found signal (undecodable bodies
\* included) ends the request with no forced refresh, no second POST, and
\* the original 404 sent to the client.
CEx_C5 ==
    \A t \in Requests :
        ( /\ tasks[t].pc = "done"
          /\ ~tasks[t].stream
          /\ tasks[t].first.status = 404
          /\ ~ClaimSignal(tasks[t].first.body) )
        => /\ tasks[t].posts = 1
           /\ tasks[t].ctx = "resolve1"
           /\ tasks[t].out.status = 404
           /\ tasks[t].out.body = tasks[t].first.body

Thm_C7 ==
    \A t \in Procs :
        /\ tasks[t].err # "registry"
        /\ (t \in Requests /\ tasks[t].pc = "done")
               => tasks[t].posts + tasks[t].opens >= 1

Witness_C7 ==
    \E t \in Requests :
        /\ tasks[t].pc = "post1"
        /\ tasks[t].ctx = "resolve1"
        /\ tasks[t].attempt = 1
        /\ hist.lastOk < 0

\* ---------------------------------------------------------------- C8
NonEmptyChunk(c) == Len(c) > 0

\* C8: the chunks relayed to the client are the chunks received from the
\* upstream without the zero-length ones: same order, same content, nothing
\* added, merged or split.
Thm_C8 ==
    \A t \in Requests :
        tasks[t].relayed = SelectSeq(tasks[t].received, NonEmptyChunk)

Witness_C8 ==
    \E t \in Requests :
        /\ tasks[t].pc = "done"
        /\ tasks[t].err = "none"
        /\ \E i, j \in 1 .. Len(tasks[t].received) :
              /\ i < j
              /\ tasks[t].received[i] = <<>>
              /\ tasks[t].received[j] # <<>>
              /\ tasks[t].relayed = <<tasks[t].received[j]>>

\* ---------------------------------------------------------------- C9
\* C9: whenever the upstream answered and the client was sent a status, the
\* status sent is the status of the last upstream response, buffered or
\* streaming (requests ended by a transport failure or by the handler's
\* AttributeError of C5 aside).
CEx_C9 ==
    \A t \in Requests :
        ( /\ tasks[t].r.status # 0
          /\ tasks[t].out.status # 0
          /\ tasks[t].err \notin {"transport", "AttributeError"} )
        => tasks[t].out.status = tasks[t].r.status

\* ---------------------------------------------------------------- C10
\* C10 (as stated): a refresh(force=False) caller that was queued on the lock
\* while another task's fetch returned a list, whatever the list, issues no
\* GET /v1/models of its own (here: with ttl > 0).
CEx_C10 ==
    \A t \in Requests :
        ~( /\ ttl_sec > 0
           /\ NonForced(tasks[t].ctx)
           /\ tasks[t].pc = "fetch"
           /\ tasks[t].saw # "none" )

\* C10 (amended): a refresh(force=False) caller that was queued on the lock
\* while another task's fetch returned a non-empty list, and that gets the
\* lock with ttl > 0 and less than ttl after the last such fetch, returns
\* without a GET /v1/models of its own.
Thm_C10 ==
    [][ \A t \in Requests :
            ( /\ tasks[t].pc = "lock_wait"
              /\ tasks'[t].pc # "lock_wait"
              /\ NonForced(tasks[t].ctx)
              /\ tasks[t].saw = "nonempty"
              /\ InWindow(hist.lastOkNE) )
            => /\ tasks'[t].pc # "fetch"
               /\ tasks'[t].attempt = 0 ]_vars

Witness_C10 ==
    \E t \in Requests :
        /\ tasks[t].pc = "post1"
        /\ tasks[t].ctx = "resolve1"
        /\ tasks[t].saw = "nonempty"
        /\ tasks[t].attempt = 0

\* ---------------------------------------------------------------- C11
\* C11: a request that was in flight when on_shutdown ran (here: its first
\* POST was issued on the open client) makes no GET /v1/models and no POST on
\* the closed client or through the cleared (None) global.
CEx_C11 ==
    \A t \in Requests : tasks[t].posts >= 1 => tasks[t].bad = "none"

\* ---------------------------------------------------------------- C12
\* C12: if every GET /v1/models of the warmup failed, on_startup has still
\* completed with the shared client constructed and the cache empty; and as
\* long as no fetch has returned, a request that is past its resolve step has
\* dispatched exactly once, with the model it asked for if it named one and
\* the default model otherwise.
Thm_C12 ==
    (tasks[Startup].pc = "done" /\ hist.lastOk < 0) =>
        /\ http_client = "open"
        /\ models = <<>>
        /\ last_fetch = 0
        /\ \A t \in Requests :
              (tasks[t].ctx = "resolve1" /\ tasks[t].pc \notin {"lock_wait", "fetch"})
                  => /\ tasks[t].posts + tasks[t].opens = 1
                     /\ tasks[t].err # "registry"
                     /\ tasks[t].model = IF Truthy(tasks[t].requested)
                                         THEN tasks[t].requested
                                         ELSE default_model

Witness_C12 ==
    \E t \in Requests :
        /\ tasks[Startup].pc = "done"
        /\ hist.lastOk < 0
        /\ retries = MaxRetries
        /\ tasks[t].pc = "post1"
        /\ tasks[t].attempt = 1
        /\ tasks[t].requested = None
        /\ tasks[t].model = default_model
        /\ default_model = "D"

\* ---------------------------------------------------------------- C13
\* C13: a request's resolve step (refresh(force=False) inside the router's
\* resolve_model) never waits on the lock while another caller's forced
\* refresh, whose GET /v1/models has already failed, goes on holding it
\* through its retry delay and its further attempts.
CEx_C13 ==
    \A t \in Requests :
        ~( /\ tasks[t].ctx = "resolve1"
           /\ tasks[t].pc = "lock_wait"
           /\ \E u \in Procs :
                 /\ lock = u
                 /\ Forced(tasks[u].ctx)
                 /\ tasks[u].pc \in {"sleep", "fetch"}
                 /\ tasks[u].attempt >= 1
                 /\ (tasks[u].pc = "fetch" => tasks[u].attempt >= 2) )

\* ---------------------------------------------------------------- C14
\* C14 (as stated): in a step in which a GET /v1/models returns a list,
\* whatever the list, the cache becomes exactly that list and the fetch time
\* becomes the time of that fetch.
CEx_C14 ==
    [][ hist'.lastOk # hist.lastOk =>
            /\ models' = fetch_models(listing)
            /\ last_fetch' = now ]_vars

\* C14 (amended): the cache is exactly the list of the last GET /v1/models
\* that returned a non-empty list (nothing merged, nothing kept from before)
\* and the fetch time is the time of that fetch; before any such fetch both
\* have their initial values. A fetch that returns an empty list changes
\* neither.
Thm_C14 ==
    IF hist.lastOkNE >= 0
    THEN /\ models = hist.ids
         /\ models # <<>>
         /\ last_fetch = hist.lastOkNE
    ELSE /\ models = <<>>
         /\ last_fetch = 0

Witness_C14 ==
    \E t \in Requests :
        /\ tasks[t].pc = "post1"
        /\ tasks[t].ctx = "resolve1"
        /\ tasks[t].attempt = 0
        /\ tasks[t].resolved = "A"
        /\ models = <<"B">>
        /\ last_fetch = Epoch + 1
        /\ hist.lastOk = Epoch + 1

\* ---------------------------------------------------------------- C15
\* C15: with retries >= 1 a forced refresh makes at most `retries` attempts,
\* and a retry delay is taken only when a further attempt follows it: no
\* task sleeps after the last attempt of its budget.
CEx_C15 ==
    \A t \in Procs :
        (retries >= 1 /\ Forced(tasks[t].ctx)) =>
            /\ tasks[t].attempt <= retries
            /\ tasks[t].pc = "sleep" => tasks[t].attempt < retries

\* ---------------------------------------------------------------- C16
\* C16: while a task is inside refresh's locked section, a step of its in
\* which no fetch returns a list (a failed attempt, the retry delay, the
\* return after the last failed attempt) leaves the cache and the fetch time
\* as they were; so a refresh whose attempts all fail returns with both as
\* it found them.
Thm_C16 ==
    [][ \A t \in Procs :
            ( /\ lock = t
              /\ tasks[t].pc \in {"fetch", "sleep"}
              /\ tasks'[t] # tasks[t]
              /\ hist' = hist )
            => /\ models' = models
               /\ last_fetch' = last_fetch ]_vars

Witness_C16 ==
    \E t \in Requests :
        /\ tasks[t].ctx = "force404"
        /\ tasks[t].pc = "sleep"
        /\ retries = MaxRetries
        /\ tasks[t].attempt = retries
        /\ models = <<"A", "B">>
        /\ last_fetch = Epoch
        /\ now = Epoch + 1

\* ---------------------------------------------------------------- C17
\* the tasks inside refresh's locked section: suspended in a fetch or in the
\* retry delay
InSection == { t \in Procs : tasks[t].pc \in {"fetch", "sleep"} }

\* C17: at most one task is inside refresh's locked section, and it is the
\* holder of the lock; the cache and the fetch time change only in a step of
\* the holder in which its fetch returns, and then both take the values of
\* that fetch in that one step.
Thm_C17 ==
    /\ [](/\ Cardinality(InSection) <= 1
          /\ \A t \in Procs : t \in InSection <=> lock = t)
    /\ [][ (models' # models \/ last_fetch' # last_fetch) =>
               \E t \in Procs :
                   /\ lock = t
                   /\ tasks[t].pc = "fetch"
                   /\ models' = fetch_models(listing)
                   /\ models' # <<>>
                   /\ last_fetch' = now ]_vars

Witness_C17 ==
    \E t, u \in Requests :
        /\ lock = t
        /\ tasks[t].pc = "fetch"
        /\ tasks[u].pc = "lock_wait"
        /\ models = <<"B">>
        /\ last_fetch = Epoch + 1

\* ---------------------------------------------------------------- C18
\* the model key of the payload as the client sent it
Received(t) == IF tasks[t].requested = None THEN Absent ELSE tasks[t].requested

\* the request has run its resolve step and waits for the upstream's answer
\* to its first dispatch
Dispatched(t) ==
    /\ tasks[t].ctx = "resolve1"
    /\ tasks[t].pc \in {"post1", "stream_open"}

\* C18 (as stated): after the resolve step the payload's model is what
\* resolve_model returned if that is non-empty; otherwise the model key is as
\* the client sent it, absent if it was absent.
CEx_C18 ==
    \A t \in Requests :
        Dispatched(t) =>
            tasks[t].model = IF tasks[t].resolved # "" THEN tasks[t].resolved
                             ELSE Received(t)

\* C18 (amended): after the resolve step the payload's model is what
\* resolve_model returned if that is non-empty; otherwise a model key the
\* client sent is unchanged, and if the client sent none the key is added
\* with the default model, which is empty in that case.
Thm_C18 ==
    \A t \in Requests :
        Dispatched(t) =>
            /\ tasks[t].model = IF tasks[t].resolved # "" THEN tasks[t].resolved
                                ELSE IF Received(t) = Absent THEN default_model
                                ELSE Received(t)
            /\ tasks[t].resolved = "" => tasks[t].model = ""

Witness_C18 ==
    \E t \in Requests :
        /\ Dispatched(t)
        /\ tasks[t].resolved = ""
        /\ Received(t) = Absent
        /\ tasks[t].model = ""
        /\ tasks[t].attempt = 1

\* ---------------------------------------------------------------- C19
\* C19: a buffered request issues its second POST only after a first
\* response that is a 404 with the model-not-found signal, after the forced
\* refresh that response starts has returned and the model has been
\* re-resolved on the cache as it then is, with the re-resolved model, which
\* is non-empty and differs from the model of the first POST; and whenever
\* the re-resolution yields such a model the second POST is issued.
Thm_C19 ==
    [][ \A t \in Requests :
          /\ \* the signal starts the forced refresh
             ( /\ tasks[t].pc = "post1"
               /\ tasks'[t].pc # "post1"
               /\ tasks'[t].err = "none"
               /\ NotFound404(AsSent(tasks'[t].first)) )
             => /\ tasks'[t].ctx = "force404"
                /\ tasks'[t].pc \in {"lock_wait", "fetch"}
                /\ tasks'[t].posts = 1
          /\ \* the forced refresh and the re-resolution follow a first POST
             tasks'[t].ctx \in {"force404", "resolve2"}
             => /\ tasks'[t].posts >= 1
                /\ NotFound404(AsSent(tasks'[t].first))
                /\ ~tasks'[t].stream
          /\ \* the second POST
             tasks'[t].posts > tasks[t].posts /\ tasks[t].posts >= 1
             => /\ tasks[t].ctx \in {"force404", "resolve2"}
                /\ tasks'[t].ctx = "resolve2"
                /\ tasks'[t].pc = "post2"
                /\ tasks'[t].posts = 2
                /\ tasks'[t].model =
                       ClaimResolve(tasks[t].requested, default_model, models')
                /\ tasks'[t].model # ""
                /\ tasks'[t].model # tasks[t].model
          /\ \* the re-resolution ends: the second POST, or the first response
             (Resolved(t) /\ tasks'[t].ctx = "resolve2")
             => LET new == ClaimResolve(tasks[t].requested, default_model, models')
                IN  (new # "" /\ new # tasks[t].model) <=> tasks'[t].pc = "post2" ]_vars

Witness_C19 ==
    \E t \in Requests :
        /\ tasks[t].pc = "post2"
        /\ tasks[t].posts = 2
        /\ tasks[t].requested = "C"
        /\ tasks[t].first = Resp(404, BodyMsgNF)
        /\ tasks[t].model = "A"

\* ---------------------------------------------------------------- C20
\* C20: a request with the stream flag set issues no buffered POST, runs no
\* forced refresh and no re-resolution, and opens the upstream stream
\* exactly once: one streaming POST once its resolve step is over, none
\* before, never a second one, whatever the upstream answers.
Thm_C20 ==
    \A t \in Requests :
        (tasks[t].stream /\ tasks[t].pc # "idle") =>
            /\ tasks[t].posts = 0
            /\ tasks[t].ctx = "resolve1"
            /\ tasks[t].attempt <= 1
            /\ tasks[t].pc \in {"lock_wait", "fetch", "stream_open", "streaming", "done"}
            /\ tasks[t].opens = IF tasks[t].pc \in {"lock_wait", "fetch"} THEN 0 ELSE 1

Witness_C20 ==
    \E t \in Requests :
        /\ tasks[t].stream
        /\ tasks[t].pc = "done"
        /\ tasks[t].r = Resp(404, BodyCode404)
        /\ tasks[t].opens = 1
        /\ tasks[t].posts = 0

FragmentOf(item) ==
    IF item.chunk.content # "" THEN item.chunk.content ELSE item.chunk.text

HasFragment(item) == item.kind = "chunk" /\ FragmentOf(item) # ""

\* an item that ends the consumer's loop: the sentinel, an error item, or a
\* chunk the loop body fails on
Ends(item) == item.kind # "chunk" \/ ~item.chunk.choices

\* the data events of the fragments among the first k items
DataEvents(items, k) ==
    LET F == SelectSeq(SubSeq(items, 1, k), HasFragment)
    IN  [i \in 1 .. Len(F) |-> Event(FragmentOf(F[i]))]

\* the worker thread's hand-off: items reach the consumer in the order handed
InOrder == bridge.got \o bridge.queue \o bridge.ready = bridge.posted

\* what the producer hands over: the chunks in the order yielded, then the
\* exception if the generation raised one, then the sentinel, last
SentinelLast ==
    LET P == bridge.posted
        n == Len(P)
    IN  /\ \A i \in 1 .. n :
              /\ P[i].kind = "None" => i = n
              /\ P[i].kind = "exception" =>
                     \/ i = n /\ bridge.producer = "finally"
                     \/ i = n - 1 /\ P[n].kind = "None"
        /\ bridge.producer = "ended" <=> (n > 0 /\ P[n].kind = "None")
        /\ bridge.yielded = Len(SelectSeq(P, LAMBDA it : it.kind = "chunk"))

\* what the consumer has yielded: the fragments of the chunks before the
\* first ending item, in order; after an ending item that is no sentinel the
\* error event; and, at the end, one "data: [DONE]"
EventsAsTaken ==
    LET G    == bridge.got
        n    == Len(G)
        over == n > 0 /\ Ends(G[n])
        err  == over /\ G[n].kind # "None"
    IN  /\ \A i \in 1 .. n - 1 : ~Ends(G[i])
        /\ over <=> bridge.pc \in {"error", "done_event", "done"}
        /\ bridge.pc = "error" => err
        /\ bridge.events =
              DataEvents(G, n)
              \o (IF err /\ bridge.pc \in {"done_event", "done"}
                  THEN << ErrorEvent >> ELSE << >>)
              \o (IF bridge.pc = "done" THEN << DoneEvent >> ELSE << >>)

\* C22: the producer hands every item to the loop in production order with
\* the sentinel last, also when the generation raises; the consumer emits the
\* fragments in that order, none after an error item, and its stream ends
\* with exactly one "data: [DONE]", as the last event; and a started
\* token_stream always gets to that end.
Thm_C22 ==
    /\ [](InOrder /\ SentinelLast /\ EventsAsTaken)
    /\ [](bridge.pc = "done" =>
            /\ bridge.events[Len(bridge.events)] = DoneEvent
            /\ \A i \in 1 .. Len(bridge.events) - 1 : bridge.events[i] # DoneEvent)
    /\ (bridge.pc = "get") ~> (bridge.pc = "done")

Witness_C22 ==
    /\ bridge.pc = "done"
    /\ bridge.producer = "ended"
    /\ bridge.posted = << ItemChunk(ChunkDelta), ItemChunk(ChunkText),
                          ItemException, ItemNone >>
    /\ bridge.events = << Event("x"), Event("y"), ErrorEvent, DoneEvent >>

====
